---------------------------- MODULE Spec2Model ----------------------------
(***************************************************************************)
(* A model of hlat.hpp: the XPath lexer, the recursive-descent parser, the *)
(* heuristic classifier, the step -> QtLocator converter, the locator      *)
(* serializer and the four-stage pipeline object QtPythonDeclarationsFrom  *)
(* with its mutable _cache field.                                          *)
(*                                                                         *)
(* A std::string is modelled as a sequence of characters, a character as a *)
(* one-character TLA+ string.  Positions are zero-based as in the source.  *)
(***************************************************************************)
EXTENDS Integers, Sequences, FiniteSets, TLC

VARIABLES
    _cache,      \* QtPythonDeclarationsFrom::_cache
    pc,          \* per thread: where its call of operator() stands
    xpath,       \* per thread: the argument of operator()
    tokens,      \* per thread: local `tokens` of operator()
    xlocs,       \* per thread: local `xlocs` of operator()
    result,      \* per thread: the value operator() returns
    error,       \* per thread: the exception that left operator()
    ran,         \* per thread: the stages this invocation has run
    entry,       \* per thread: _cache as it was when operator() was entered
    seen,        \* one earlier invocation, remembered with its outcome
    steps_,      \* XPathConverter::steps_
    out,         \* the vector XPathConverter::convert returned
    input_,      \* XPathLexer::input_
    shape,       \* how input_ was written: its family and its pieces
    lexed,       \* the outcome of XPathLexer(input_).tokenize()
    parsed,      \* the outcome of XPathParser(tokens).parse()
    located,     \* the vector XPathConverter(steps).convert() returned
    u_fn,        \* the helper under call: the classifier or util::canonicalize
    u_arg,       \* its argument
    u_ret,       \* what it returned
    u_again      \* what it returned when applied to its own result

pipeVars == <<_cache, pc, xpath, tokens, xlocs, result, error, ran, entry, seen>>
convVars == <<steps_, out>>
lexVars == <<input_, shape, lexed, parsed, located>>
utilVars == <<u_fn, u_arg, u_ret, u_again>>
vars == <<_cache, pc, xpath, tokens, xlocs, result, error, ran, entry, seen, steps_, out,
          input_, shape, lexed, parsed, located, u_fn, u_arg, u_ret, u_again>>

-----------------------------------------------------------------------------
(* Optional values: a local that does not exist (yet), a value never       *)
(* returned because an exception left the function.                        *)

None == [some |-> FALSE]
Some(v) == [some |-> TRUE, val |-> v]

-----------------------------------------------------------------------------
(* Characters, <cctype>                                                    *)

LowerSeq ==
    <<"a","b","c","d","e","f","g","h","i","j","k","l","m",
      "n","o","p","q","r","s","t","u","v","w","x","y","z">>
UpperSeq ==
    <<"A","B","C","D","E","F","G","H","I","J","K","L","M",
      "N","O","P","Q","R","S","T","U","V","W","X","Y","Z">>
DigitSeq == <<"0","1","2","3","4","5","6","7","8","9">>

Range(s) == {s[i] : i \in DOMAIN s}
IndexOf(s, c) == CHOOSE i \in DOMAIN s : s[i] = c

\* The characters '\0' and '\v', which a TLA+ string cannot hold.
NUL == "NUL"
VT == "VT"

IsDigit(c) == c \in Range(DigitSeq)
IsAlnum(c) == c \in Range(LowerSeq) \cup Range(UpperSeq) \cup Range(DigitSeq)
IsSpace(c) == c \in {" ", "\t", "\n", "\r", "\f", VT}
ToLower(c) == IF c \in Range(UpperSeq) THEN LowerSeq[IndexOf(UpperSeq, c)] ELSE c

\* The characters of the model in ASCII order; std::string compares by it.
AsciiOrder ==
    <<NUL, "\t", "\n", VT, "\f", "\r",
      " ", "!", "\"", "#", "$", "%", "&", "'", "(", ")", "*", "+", ",", "-", ".", "/">>
    \o DigitSeq \o <<":", ";", "<", "=", ">", "?", "@">>
    \o UpperSeq \o <<"[", "\\", "]", "^", "_">>
    \o LowerSeq \o <<"{", "|", "}", "~">>
CharCode(c) == IndexOf(AsciiOrder, c)

RECURSIVE StrLess(_, _)
StrLess(a, b) ==
    IF Len(b) = 0 THEN FALSE
    ELSE IF Len(a) = 0 THEN TRUE
    ELSE IF a[1] = b[1] THEN StrLess(Tail(a), Tail(b))
    ELSE CharCode(a[1]) < CharCode(b[1])

-----------------------------------------------------------------------------
(* namespace util                                                          *)

\* toLowerInPlace leaving the string as it is
toLowerInPlace_Identity(s) == s

toLowerInPlace(s) == [i \in 1..Len(s) |-> ToLower(s[i])]

endsWith(str, suffix) ==
    /\ Len(str) >= Len(suffix)
    /\ SubSeq(str, Len(str) - Len(suffix) + 1, Len(str)) = suffix

contains(str, needle) ==
    \E i \in 1..(Len(str) - Len(needle) + 1) :
        SubSeq(str, i, i + Len(needle) - 1) = needle

\* line 109: every non-alphanumeric character becomes '_'
Underscored(in) == [i \in 1..Len(in) |-> IF IsAlnum(in[i]) THEN in[i] ELSE "_"]

\* lines 110-111 with the pattern "__" for "_+": every pair of a run becomes one '_'
Collapse_Pairs(s) ==
    LET RunPos(i) == i - (CHOOSE j \in 0..i :
                             /\ j = 0 \/ s[j] # "_"
                             /\ \A k \in (j + 1)..i : s[k] = "_")
        kept == SelectSeq([i \in 1..Len(s) |-> i],
                          LAMBDA i : ~(s[i] = "_" /\ RunPos(i) % 2 = 0))
    IN  [k \in 1..Len(kept) |-> s[kept[k]]]

\* lines 110-111: regex_replace(out, "_+", "_")
CollapseFrom(s) ==
    SelectSeq([i \in 1..Len(s) |-> i],
              LAMBDA i : ~(s[i] = "_" /\ i > 1 /\ s[i - 1] = "_"))
Collapse(s) == LET kept == CollapseFrom(s) IN [k \in 1..Len(kept) |-> s[kept[k]]]

\* line 112 left out: a leading '_' stays
TrimFront_Keep(s) == s

\* lines 112-113
TrimFront(s) == IF Len(s) > 0 /\ s[1] = "_" THEN Tail(s) ELSE s
TrimBack(s) == IF Len(s) > 0 /\ s[Len(s)] = "_" THEN SubSeq(s, 1, Len(s) - 1) ELSE s

canonicalize(in) == TrimBack(TrimFront(Collapse(Underscored(in))))

-----------------------------------------------------------------------------
(* class HeuristicQtClassifier                                             *)

S_button == <<"b","u","t","t","o","n">>
S_container == <<"c","o","n","t","a","i","n","e","r">>
S_form == <<"f","o","r","m">>
S_textfield == <<"t","e","x","t","f","i","e","l","d">>
S_checkbox == <<"c","h","e","c","k","b","o","x">>
S_radiobutton == <<"r","a","d","i","o","b","u","t","t","o","n">>
S_combobox == <<"c","o","m","b","o","b","o","x">>
S_slider == <<"s","l","i","d","e","r">>
S_label == <<"l","a","b","e","l">>
S_view == <<"v","i","e","w">>
S_field == <<"f","i","e","l","d">>
S_text == <<"t","e","x","t">>
S_panel == <<"p","a","n","e","l">>

PushButtonQT == <<"P","u","s","h","B","u","t","t","o","n","Q","T">>
ScrollViewQT == <<"S","c","r","o","l","l","V","i","e","w","Q","T">>
ModuleQT == <<"M","o","d","u","l","e","Q","T">>
TextFieldQT == <<"T","e","x","t","F","i","e","l","d","Q","T">>
CheckBoxQT == <<"C","h","e","c","k","B","o","x","Q","T">>
RadioButtonQT == <<"R","a","d","i","o","B","u","t","t","o","n","Q","T">>
ComboBoxQT == <<"C","o","m","b","o","B","o","x","Q","T">>
SliderQT == <<"S","l","i","d","e","r","Q","T">>
LabelQT == <<"L","a","b","e","l","Q","T">>
QWidget == <<"Q","W","i","d","g","e","t">>

\* The rules with the substring rules (lines 139-144) ahead of the suffix rules
ClassifyLower_ContainsFirst(tag) ==
    IF tag = S_button THEN PushButtonQT
    ELSE IF tag = S_container THEN ScrollViewQT
    ELSE IF tag = S_form THEN ModuleQT
    ELSE IF tag = S_textfield THEN TextFieldQT
    ELSE IF contains(tag, S_button) THEN PushButtonQT
    ELSE IF contains(tag, S_field) THEN TextFieldQT
    ELSE IF contains(tag, S_text) THEN TextFieldQT
    ELSE IF contains(tag, S_container) THEN ScrollViewQT
    ELSE IF contains(tag, S_panel) THEN ScrollViewQT
    ELSE IF contains(tag, S_form) THEN ModuleQT
    ELSE IF endsWith(tag, S_checkbox) THEN CheckBoxQT
    ELSE IF endsWith(tag, S_combobox) THEN ComboBoxQT
    ELSE IF endsWith(tag, S_slider) THEN SliderQT
    ELSE IF endsWith(tag, S_label) THEN LabelQT
    ELSE IF endsWith(tag, S_view) THEN ScrollViewQT
    ELSE QWidget

\* The rules with the suffix "radiobutton" tested ahead of the suffix "button"
ClassifyLower_RadioFirst(tag) ==
    IF tag = S_button THEN PushButtonQT
    ELSE IF tag = S_container THEN ScrollViewQT
    ELSE IF tag = S_form THEN ModuleQT
    ELSE IF tag = S_textfield THEN TextFieldQT
    ELSE IF endsWith(tag, S_radiobutton) THEN RadioButtonQT
    ELSE IF endsWith(tag, S_button) THEN PushButtonQT
    ELSE IF endsWith(tag, S_checkbox) THEN CheckBoxQT
    ELSE IF endsWith(tag, S_combobox) THEN ComboBoxQT
    ELSE IF endsWith(tag, S_slider) THEN SliderQT
    ELSE IF endsWith(tag, S_label) THEN LabelQT
    ELSE IF endsWith(tag, S_view) THEN ScrollViewQT
    ELSE IF endsWith(tag, S_field) THEN TextFieldQT
    ELSE IF contains(tag, S_button) THEN PushButtonQT
    ELSE IF contains(tag, S_field) THEN TextFieldQT
    ELSE IF contains(tag, S_text) THEN TextFieldQT
    ELSE IF contains(tag, S_container) THEN ScrollViewQT
    ELSE IF contains(tag, S_panel) THEN ScrollViewQT
    ELSE IF contains(tag, S_form) THEN ModuleQT
    ELSE QWidget

\* lines 127-145, on the lower-cased tag
ClassifyLower(tag) ==
    IF tag = S_button THEN PushButtonQT
    ELSE IF tag = S_container THEN ScrollViewQT
    ELSE IF tag = S_form THEN ModuleQT
    ELSE IF tag = S_textfield THEN TextFieldQT
    ELSE IF endsWith(tag, S_button) THEN PushButtonQT
    ELSE IF endsWith(tag, S_checkbox) THEN CheckBoxQT
    ELSE IF endsWith(tag, S_radiobutton) THEN RadioButtonQT
    ELSE IF endsWith(tag, S_combobox) THEN ComboBoxQT
    ELSE IF endsWith(tag, S_slider) THEN SliderQT
    ELSE IF endsWith(tag, S_label) THEN LabelQT
    ELSE IF endsWith(tag, S_view) THEN ScrollViewQT
    ELSE IF endsWith(tag, S_field) THEN TextFieldQT
    ELSE IF contains(tag, S_button) THEN PushButtonQT
    ELSE IF contains(tag, S_field) THEN TextFieldQT
    ELSE IF contains(tag, S_text) THEN TextFieldQT
    ELSE IF contains(tag, S_container) THEN ScrollViewQT
    ELSE IF contains(tag, S_panel) THEN ScrollViewQT
    ELSE IF contains(tag, S_form) THEN ModuleQT
    ELSE QWidget

\* HeuristicQtClassifier::operator()
classifier_(tag_sv) == ClassifyLower(toLowerInPlace(tag_sv))

-----------------------------------------------------------------------------
(* Exceptions: what() and, when the message carries one, the offset        *)

Thrown(what) == [what |-> what, at |-> None]
ThrownAt(what, position) == [what |-> what, at |-> Some(position)]

-----------------------------------------------------------------------------
(* struct Token, class XPathLexer                                          *)

Token(type, value, position) == [type |-> type, value |-> value, position |-> position]

\* input_[p] and input_.substr(start, n), zero-based
At(input, p) == input[p + 1]
SubStr(input, start, n) == SubSeq(input, start + 1, start + n)

\* strchr("/[]@=!<>*", c) != nullptr: the terminating '\0' of the literal is found too
IsDelimiter(c) == c \in {"/", "[", "]", "@", "=", "!", "<", ">", "*", NUL}

\* lines 177-180: the position where the scan for the closing quote q stops
RECURSIVE ScanLiteral(_, _, _)
ScanLiteral(input, p, q) ==
    IF p < Len(input) /\ At(input, p) # q
    THEN ScanLiteral(input,
             IF At(input, p) = "\\" /\ p + 1 < Len(input) THEN p + 2 ELSE p + 1, q)
    ELSE p

\* lines 206-211
RECURSIVE ScanAxis(_, _)
ScanAxis(input, p) ==
    IF p < Len(input) /\ ~IsSpace(At(input, p)) /\ At(input, p) \notin {":", "/"}
    THEN ScanAxis(input, p + 1)
    ELSE p

\* lines 225-230
RECURSIVE ScanTag(_, _)
ScanTag(input, p) ==
    IF p < Len(input) /\ ~IsSpace(At(input, p)) /\ ~IsDelimiter(At(input, p))
    THEN ScanTag(input, p + 1)
    ELSE p

LexState(p, toks, err) == [pos |-> p, tokens |-> toks, error |-> err]

\* lines 224-233: generic identifier
LexTag(input, pos, toks) ==
    LET p == ScanTag(input, pos)
    IN  LexState(p, Append(toks, Token("Tag", SubStr(input, pos, p - pos), pos)), None)

\* lines 201-233: the axis check, falling through to the generic identifier
LexAxisOrTag(input, pos, toks) ==
    IF pos + 2 < Len(input) /\ At(input, pos + 1) = ":" /\ At(input, pos + 2) = ":"
    THEN LET p == ScanAxis(input, pos)
         IN  IF p + 1 < Len(input) /\ At(input, p) = ":" /\ At(input, p + 1) = ":"
             THEN LexState(p + 2,
                      Append(toks, Token("Axis", SubStr(input, pos, p - pos), pos)), None)
             ELSE LexTag(input, pos, toks)
    ELSE LexTag(input, pos, toks)

\* lines 173-188: a quoted literal
LexLiteral(input, pos, toks) ==
    LET start == pos + 1
        p == ScanLiteral(input, start, At(input, pos))
    IN  IF p >= Len(input)
        THEN LexState(p, toks, Some(Thrown("Unterminated string literal")))
        ELSE LexState(p + 1,
                 Append(toks, Token("Literal", SubStr(input, start, p - start), start)), None)

\* lines 189-197: a comparison operator
LexOperator(input, pos, toks) ==
    IF pos + 1 < Len(input) /\ At(input, pos + 1) = "="
    THEN LexState(pos + 2, Append(toks, Token("Operator", <<At(input, pos), "=">>, pos)), None)
    ELSE LexState(pos + 1, Append(toks, Token("Operator", <<At(input, pos)>>, pos)), None)

\* lines 160-233: one iteration of the loop of tokenize, pos < input_.length()
LexIteration(input, pos, toks) ==
    LET c == At(input, pos)
    IN  IF IsSpace(c) THEN LexState(pos + 1, toks, None)
        ELSE IF c = "/"
        THEN IF pos + 1 < Len(input) /\ At(input, pos + 1) = "/"
             THEN LexState(pos + 2, Append(toks, Token("Slash", <<"/", "/">>, pos)), None)
             ELSE LexState(pos + 1, Append(toks, Token("Slash", <<"/">>, pos)), None)
        ELSE IF c = "@" THEN LexState(pos + 1, Append(toks, Token("Attribute", <<"@">>, pos)), None)
        ELSE IF c = "[" THEN LexState(pos + 1, Append(toks, Token("Predicate", <<"[">>, pos)), None)
        ELSE IF c = "]" THEN LexState(pos + 1, Append(toks, Token("Predicate", <<"]">>, pos)), None)
        ELSE IF c = "*" THEN LexState(pos + 1, Append(toks, Token("Wildcard", <<"*">>, pos)), None)
        ELSE IF c \in {"\"", "'"} THEN LexLiteral(input, pos, toks)
        ELSE IF c \in {"=", "!", ">", "<"} THEN LexOperator(input, pos, toks)
        ELSE LexAxisOrTag(input, pos, toks)

\* The loop of tokenize with line 235 left out: no End token is pushed
RECURSIVE TokenizeFrom_NoEnd(_, _, _)
TokenizeFrom_NoEnd(input, pos, toks) ==
    IF pos >= Len(input)
    THEN [tokens |-> Some(toks), error |-> None]
    ELSE LET s == LexIteration(input, pos, toks)
         IN  IF s.error.some THEN [tokens |-> None, error |-> s.error]
             ELSE IF s.pos = pos THEN [tokens |-> None, error |-> Some(Thrown("std::bad_alloc"))]
             ELSE TokenizeFrom_NoEnd(input, s.pos, s.tokens)

\* The loop of tokenize from pos_ = pos.  An iteration that neither throws nor
\* moves pos_ repeats itself for ever, appending a token each time, until the
\* vector cannot grow: the call ends in std::bad_alloc.
RECURSIVE TokenizeFrom(_, _, _)
TokenizeFrom(input, pos, toks) ==
    IF pos >= Len(input)
    THEN [tokens |-> Some(Append(toks, Token("End", <<>>, pos))), error |-> None]
    ELSE LET s == LexIteration(input, pos, toks)
         IN  IF s.error.some THEN [tokens |-> None, error |-> s.error]
             ELSE IF s.pos = pos THEN [tokens |-> None, error |-> Some(Thrown("std::bad_alloc"))]
             ELSE TokenizeFrom(input, s.pos, s.tokens)

\* XPathLexer(input).tokenize()
tokenize(input) == TokenizeFrom(input, 0, <<>>)

-----------------------------------------------------------------------------
(* XPath components: AttributePredicate, PositionPredicate, XLocator       *)

AttributePredicate(name, value, op) ==
    [kind |-> "attribute", name |-> name, value |-> value, op |-> op, position |-> 0]
PositionPredicate(position) ==
    [kind |-> "position", name |-> <<>>, value |-> <<>>, op |-> <<>>, position |-> position]

\* std::optional<ComplexPredicate>: has = FALSE is std::nullopt
NoPredicate == [has |-> FALSE, conditions |-> <<>>]
ComplexPredicate(conditions) == [has |-> TRUE, conditions |-> conditions]

XLocator(axis, tag, predicate, is_absolute) ==
    [axis |-> axis, tag |-> tag, predicate |-> predicate, is_absolute |-> is_absolute]

S_star == <<"*">>
\* The uid token of a wildcard step left as the node test itself
S_any_Star == <<"*">>
S_any == <<"a","n","y">>
S_us == <<"_">>
S_child == <<"c","h","i","l","d">>
S_descendant_or_self ==
    <<"d","e","s","c","e","n","d","a","n","t","-","o","r","-","s","e","l","f">>

-----------------------------------------------------------------------------
(* class XPathParser                                                       *)

S_open == <<"[">>
S_close == <<"]">>
S_colon == <<":">>
S_and == <<"a","n","d">>
S_or == <<"o","r">>

\* int is 32 bits wide: std::stoi throws std::out_of_range above this
IntMax == 2147483647

\* tokens_[p]; an index past the vector reads no token of the input
TokAt(toks, p) ==
    IF p + 1 \in DOMAIN toks THEN toks[p + 1] ELSE Token("OutOfRange", <<>>, 0)

current(toks, pos) == TokAt(toks, pos)
previous(toks, pos) == TokAt(toks, pos - 1)
peek(toks, pos, n) == TokAt(toks, pos + n)
isAtEnd(toks, pos) == current(toks, pos).type = "End"
check(toks, pos, t) == ~isAtEnd(toks, pos) /\ current(toks, pos).type = t

\* lines 317-323: the literal with its backslash escapes removed
RECURSIVE CleanFrom(_, _, _)
CleanFrom(val, i, clean) ==
    IF i >= Len(val) THEN clean
    ELSE IF At(val, i) = "\\" /\ i + 1 < Len(val)
         THEN CleanFrom(val, i + 2, Append(clean, At(val, i + 1)))
         ELSE CleanFrom(val, i + 1, Append(clean, At(val, i)))
Clean(val) == CleanFrom(val, 0, <<>>)

\* std::stoi on a string that starts with a digit: the value of its leading
\* digits, or -1 where the value does not fit an int (std::out_of_range)
RECURSIVE StoiFrom(_, _, _)
StoiFrom(str, i, n) ==
    IF i > Len(str) \/ ~IsDigit(str[i]) THEN n
    ELSE LET d == IndexOf(DigitSeq, str[i]) - 1
         IN  IF n > (IntMax - d) \div 10 THEN -1
             ELSE StoiFrom(str, i + 1, 10 * n + d)
Stoi(str) == StoiFrom(str, 1, 0)

PredState(p, conds, err) == [pos |-> p, conditions |-> conds, error |-> err]

\* lines 313-325: pos is past the '@'; each consume throws on another token type
ParseAttributeTest(toks, pos, conds) ==
    IF ~check(toks, pos, "Tag") THEN PredState(pos, conds, Some(Thrown("Unexpected token")))
    ELSE IF ~check(toks, pos + 1, "Operator")
    THEN PredState(pos + 1, conds, Some(Thrown("Unexpected token")))
    ELSE IF ~check(toks, pos + 2, "Literal")
    THEN PredState(pos + 2, conds, Some(Thrown("Unexpected token")))
    ELSE PredState(pos + 3,
             Append(conds, AttributePredicate(TokAt(toks, pos).value,
                                              Clean(TokAt(toks, pos + 2).value),
                                              TokAt(toks, pos + 1).value)),
             None)

\* lines 326-329: the current token's text starts with a digit
ParsePosition(toks, pos, conds) ==
    IF ~check(toks, pos, "Tag") THEN PredState(pos, conds, Some(Thrown("Unexpected token")))
    ELSE IF Stoi(current(toks, pos).value) < 0
    THEN PredState(pos + 1, conds, Some(Thrown("stoi")))
    ELSE PredState(pos + 1,
             Append(conds, PositionPredicate(Stoi(current(toks, pos).value))), None)

\* The guard of the unprefixed comparison tried after the position rule: a name
\* that starts with a digit is left to std::stoi
IsBareComparison_AfterPosition(toks, pos) ==
    /\ check(toks, pos, "Tag")
    /\ ~(Len(current(toks, pos).value) > 0 /\ IsDigit(current(toks, pos).value[1]))
    /\ peek(toks, pos, 1).type = "Operator"
    /\ peek(toks, pos, 2).type \in {"Literal", "Tag"}

\* lines 296-299: the guard of the unprefixed comparison
IsBareComparison(toks, pos) ==
    /\ check(toks, pos, "Tag")
    /\ peek(toks, pos, 1).type = "Operator"
    /\ peek(toks, pos, 2).type \in {"Literal", "Tag"}

\* lines 297-299 and 348: peek(n) is tokens_[pos_ + n] with no bounds check.  The
\* guard reads index pos_ + 1 when the current token is a Tag and index pos_ + 2
\* when the next one is an Operator; an index past the vector is undefined
\* behaviour.
PeeksPastEnd(toks, pos) ==
    /\ check(toks, pos, "Tag")
    /\ \/ pos + 1 >= Len(toks)
       \/ peek(toks, pos, 1).type = "Operator" /\ pos + 2 >= Len(toks)

\* lines 291-339: one iteration of the loop of parsePredicate, not at "]"
PredIteration(toks, pos, conds) ==
    IF PeeksPastEnd(toks, pos)
    THEN PredState(pos, conds, Some(Thrown("tokens_ read past its end")))
    ELSE IF IsBareComparison(toks, pos)
    THEN PredState(pos + 3,
             Append(conds, AttributePredicate(TokAt(toks, pos).value,
                                              TokAt(toks, pos + 2).value,
                                              TokAt(toks, pos + 1).value)),
             None)
    ELSE IF check(toks, pos, "Attribute") THEN ParseAttributeTest(toks, pos + 1, conds)
    ELSE IF Len(current(toks, pos).value) > 0 /\ IsDigit(current(toks, pos).value[1])
    THEN ParsePosition(toks, pos, conds)
    ELSE IF check(toks, pos, "Tag") /\ current(toks, pos).value \in {S_and, S_or}
    THEN PredState(pos + 1, conds, None)
    ELSE PredState(pos, conds,
             Some(ThrownAt("Unexpected token in predicate at pos", current(toks, pos).position)))

\* parsePredicate leaving its loop at the end-marker as well as at "]"
RECURSIVE ParsePredicateFrom_StopsAtEnd(_, _, _)
ParsePredicateFrom_StopsAtEnd(toks, pos, conds) ==
    IF isAtEnd(toks, pos) \/ (check(toks, pos, "Predicate") /\ current(toks, pos).value = S_close)
    THEN PredState(pos, conds, None)
    ELSE LET s == PredIteration(toks, pos, conds)
         IN  IF s.error.some THEN s
             ELSE ParsePredicateFrom_StopsAtEnd(toks, s.pos, s.conditions)

\* XPathParser::parsePredicate from pos_ = pos
RECURSIVE ParsePredicateFrom(_, _, _)
ParsePredicateFrom(toks, pos, conds) ==
    IF check(toks, pos, "Predicate") /\ current(toks, pos).value = S_close
    THEN PredState(pos, conds, None)
    ELSE LET s == PredIteration(toks, pos, conds)
         IN  IF s.error.some THEN s ELSE ParsePredicateFrom(toks, s.pos, s.conditions)
parsePredicate(toks, pos) == ParsePredicateFrom(toks, pos, <<>>)

StepState(p, step, err) == [pos |-> p, step |-> step, error |-> err]

\* lines 284-285
ParseNamespace(toks, pos, step) ==
    IF check(toks, pos, "Namespace")
    THEN StepState(pos + 1,
             [step EXCEPT !.tag = current(toks, pos).value \o S_colon \o step.tag], None)
    ELSE StepState(pos, step, None)

\* lines 278-286: pos is past the node test
ParseStepTail(toks, pos, step) ==
    IF check(toks, pos, "Predicate")
    THEN IF current(toks, pos).value = S_open
         THEN LET r == parsePredicate(toks, pos + 1)
              IN  IF r.error.some THEN StepState(r.pos, step, r.error)
                  ELSE IF ~check(toks, r.pos, "Predicate")
                  THEN StepState(r.pos, step,
                           Some(ThrownAt("Expected closing ']' at pos",
                                         current(toks, r.pos).position)))
                  ELSE IF current(toks, r.pos).value # S_close
                  THEN StepState(r.pos + 1, step,
                           Some(ThrownAt("Expected closing ']' at pos",
                                         current(toks, r.pos + 1).position)))
                  ELSE ParseNamespace(toks, r.pos + 1,
                           [step EXCEPT !.predicate = ComplexPredicate(r.conditions)])
         ELSE ParseNamespace(toks, pos + 1, step)
    ELSE ParseNamespace(toks, pos, step)

\* XPathParser::parseStep from pos_ = pos
parseStep(toks, pos, is_abs) ==
    LET hasAxis == check(toks, pos, "Axis")
        axis == IF hasAxis THEN current(toks, pos).value ELSE S_child
        p == IF hasAxis THEN pos + 1 ELSE pos
    IN  IF check(toks, p, "Wildcard")
        THEN ParseStepTail(toks, p + 1, XLocator(axis, S_star, NoPredicate, is_abs))
        ELSE IF check(toks, p, "Tag")
        THEN ParseStepTail(toks, p + 1,
                 XLocator(axis, current(toks, p).value, NoPredicate, is_abs))
        ELSE StepState(p, XLocator(axis, <<>>, NoPredicate, is_abs),
                 Some(ThrownAt("Expected tag or '*' at pos", current(toks, p).position)))

\* The loop of parse, returning the steps parsed so far when a step fails
RECURSIVE ParseFrom_Partial(_, _, _)
ParseFrom_Partial(toks, pos, steps) ==
    IF isAtEnd(toks, pos) THEN [steps |-> Some(steps), error |-> None]
    ELSE IF check(toks, pos, "Slash") /\ check(toks, pos + 1, "Slash")
    THEN ParseFrom_Partial(toks, pos + 2,
             Append(steps, XLocator(S_descendant_or_self, S_star, NoPredicate, TRUE)))
    ELSE LET is_abs == check(toks, pos, "Slash")
             s == parseStep(toks, IF is_abs THEN pos + 1 ELSE pos, is_abs)
         IN  IF s.error.some THEN [steps |-> Some(steps), error |-> None]
             ELSE ParseFrom_Partial(toks, s.pos, Append(steps, s.step))

\* The loop of parse with line 260 left out: two separators push no step
RECURSIVE ParseFrom_SlashPairIgnored(_, _, _)
ParseFrom_SlashPairIgnored(toks, pos, steps) ==
    IF isAtEnd(toks, pos) THEN [steps |-> Some(steps), error |-> None]
    ELSE IF check(toks, pos, "Slash") /\ check(toks, pos + 1, "Slash")
    THEN ParseFrom_SlashPairIgnored(toks, pos + 2, steps)
    ELSE LET is_abs == check(toks, pos, "Slash")
             s == parseStep(toks, IF is_abs THEN pos + 1 ELSE pos, is_abs)
         IN  IF s.error.some THEN [steps |-> None, error |-> s.error]
             ELSE ParseFrom_SlashPairIgnored(toks, s.pos, Append(steps, s.step))

\* The loop of parse pushing the descendant-or-self step for a "//" token as well
RECURSIVE ParseFrom_DoubleSlashStep(_, _, _)
ParseFrom_DoubleSlashStep(toks, pos, steps) ==
    IF isAtEnd(toks, pos) THEN [steps |-> Some(steps), error |-> None]
    ELSE IF check(toks, pos, "Slash")
            /\ (check(toks, pos + 1, "Slash") \/ current(toks, pos).value = <<"/", "/">>)
    THEN ParseFrom_DoubleSlashStep(toks,
             IF check(toks, pos + 1, "Slash") THEN pos + 2 ELSE pos + 1,
             Append(steps, XLocator(S_descendant_or_self, S_star, NoPredicate, TRUE)))
    ELSE LET is_abs == check(toks, pos, "Slash")
             s == parseStep(toks, IF is_abs THEN pos + 1 ELSE pos, is_abs)
         IN  IF s.error.some THEN [steps |-> None, error |-> s.error]
             ELSE ParseFrom_DoubleSlashStep(toks, s.pos, Append(steps, s.step))

\* The loop of parse from pos_ = pos.  An exception destroys the local `steps`.
RECURSIVE ParseFrom(_, _, _)
ParseFrom(toks, pos, steps) ==
    IF isAtEnd(toks, pos) THEN [steps |-> Some(steps), error |-> None]
    ELSE IF check(toks, pos, "Slash") /\ check(toks, pos + 1, "Slash")
    THEN ParseFrom(toks, pos + 2,
             Append(steps, XLocator(S_descendant_or_self, S_star, NoPredicate, TRUE)))
    ELSE LET is_abs == check(toks, pos, "Slash")
             s == parseStep(toks, IF is_abs THEN pos + 1 ELSE pos, is_abs)
         IN  IF s.error.some THEN [steps |-> None, error |-> s.error]
             ELSE ParseFrom(toks, s.pos, Append(steps, s.step))

\* XPathParser(tokens).parse()
parse(toks) == ParseFrom(toks, 0, <<>>)

-----------------------------------------------------------------------------
(* nlohmann::json objects as the converter uses them: a map from key to a  *)
(* string or a number                                                      *)

JString(s) == [kind |-> "string", s |-> s, n |-> 0]
JNumber(n) == [kind |-> "number", s |-> <<>>, n |-> n]

\* json meta;  (null, becomes an object on the first operator[])
JNull == [k \in {} |-> JNumber(0)]
\* meta[key] = value
JSet(meta, key, value) ==
    [k \in (DOMAIN meta) \cup {key} |-> IF k = key THEN value ELSE meta[k]]

K_archetype == <<"a","r","c","h","e","t","y","p","e">>
K_occurrence == <<"o","c","c","u","r","r","e","n","c","e">>
K_visible == <<"v","i","s","i","b","l","e">>

-----------------------------------------------------------------------------
(* struct QtLocator, class XPathConverter                                  *)

QtLocator(uid, meta, container) == [uid |-> uid, meta |-> meta, container |-> container]

\* lines 435-442: uid += "_" + a.name + "_" + a.value for the attribute conditions
RECURSIVE UidConditions(_, _, _)
UidConditions(conditions, i, uid) ==
    IF i > Len(conditions) THEN uid
    ELSE IF conditions[i].kind = "attribute"
         THEN UidConditions(conditions, i + 1,
                  uid \o S_us \o conditions[i].name \o S_us \o conditions[i].value)
         ELSE UidConditions(conditions, i + 1, uid)

\* generateUid with the attribute values left out of the uid
generateUid_NoValues(parent, step, arch) ==
    LET token == IF step.tag = S_star THEN S_any ELSE step.tag
        uid == IF parent = <<>>
               THEN token \o S_us \o arch
               ELSE parent \o S_us \o token \o S_us \o arch
        names == [i \in 1..Len(step.predicate.conditions) |->
                     [step.predicate.conditions[i] EXCEPT !.value = <<>>]]
    IN  canonicalize(IF step.predicate.has THEN UidConditions(names, 1, uid) ELSE uid)

\* generateUid that does not prefix the uid of the preceding locator
generateUid_NoParent(parent, step, arch) ==
    LET token == IF step.tag = S_star THEN S_any ELSE step.tag
        uid == token \o S_us \o arch
    IN  canonicalize(IF step.predicate.has
                     THEN UidConditions(step.predicate.conditions, 1, uid)
                     ELSE uid)

\* XPathConverter::generateUid
generateUid(parent, step, arch) ==
    LET token == IF step.tag = S_star THEN S_any ELSE step.tag
        uid == IF parent = <<>>
               THEN token \o S_us \o arch
               ELSE parent \o S_us \o token \o S_us \o arch
    IN  canonicalize(IF step.predicate.has
                     THEN UidConditions(step.predicate.conditions, 1, uid)
                     ELSE uid)

\* lines 402-411: the loop over the conditions that fills meta
RECURSIVE MetaConditions(_, _, _)
MetaConditions(conditions, i, meta) ==
    IF i > Len(conditions) THEN meta
    ELSE IF conditions[i].kind = "attribute"
         THEN MetaConditions(conditions, i + 1,
                  JSet(meta, conditions[i].name, JString(conditions[i].value)))
         ELSE IF conditions[i].position > 1
              THEN MetaConditions(conditions, i + 1,
                       JSet(meta, K_occurrence, JNumber(conditions[i].position)))
              ELSE MetaConditions(conditions, i + 1, meta)

\* lines 399-413
BuildMeta(step, arch) ==
    LET m1 == JSet(JNull, K_archetype, JString(arch))
        m2 == IF step.predicate.has
              THEN MetaConditions(step.predicate.conditions, 1, m1)
              ELSE m1
    IN  JSet(m2, K_visible, JNumber(1))

\* One iteration of the loop of convert (lines 396-419): the locator emplaced.
ConvertStep(parent, step) ==
    LET arch == classifier_(step.tag)
    IN  QtLocator(generateUid(parent, step, arch), BuildMeta(step, arch), parent)

\* line 420 with the parent never updated
NextParent_Stale(locators) == <<>>

\* line 420: parent = out.back().uid
NextParent(locators) == locators[Len(locators)].uid

RECURSIVE ConvertFrom(_, _, _, _)
ConvertFrom(steps, i, parent, locators) ==
    IF i > Len(steps) THEN locators
    ELSE LET next == Append(locators, ConvertStep(parent, steps[i]))
         IN  ConvertFrom(steps, i + 1, NextParent(next), next)

\* convert skipping the wildcard steps
convert_DropWildcards(steps) ==
    ConvertFrom(SelectSeq(steps, LAMBDA st : st.tag # S_star), 1, <<>>, <<>>)

\* XPathConverter::convert
convert(steps) == ConvertFrom(steps, 1, <<>>, <<>>)

-----------------------------------------------------------------------------
(* QtLocator::finalize and json::dump(4)                                   *)

\* std::to_string of a non-negative int
RECURSIVE Digits(_)
Digits(n) ==
    IF n < 10 THEN <<DigitSeq[n + 1]>>
    ELSE Digits(n \div 10) \o <<DigitSeq[(n % 10) + 1]>>

\* json's escaping of one character of a string
EscapeChar(c) ==
    IF c = "\"" THEN <<"\\", "\"">>
    ELSE IF c = "\\" THEN <<"\\", "\\">>
    ELSE IF c = "\n" THEN <<"\\", "n">>
    ELSE IF c = "\t" THEN <<"\\", "t">>
    ELSE IF c = "\r" THEN <<"\\", "r">>
    ELSE IF c = "\f" THEN <<"\\", "f">>
    ELSE IF c = VT THEN <<"\\", "u", "0", "0", "0", "b">>
    ELSE IF c = NUL THEN <<"\\", "u", "0", "0", "0", "0">>
    ELSE <<c>>

RECURSIVE Escape(_)
Escape(str) == IF str = <<>> THEN <<>> ELSE EscapeChar(Head(str)) \o Escape(Tail(str))

Quoted(str) == <<"\"">> \o Escape(str) \o <<"\"">>

DumpValue(v) == IF v.kind = "string" THEN Quoted(v.s) ELSE Digits(v.n)

\* json objects are std::map: the keys in std::string order
RECURSIVE SortedKeys(_)
SortedKeys(keys) ==
    IF keys = {} THEN <<>>
    ELSE LET least == CHOOSE k \in keys : \A o \in keys \ {k} : StrLess(k, o)
         IN  <<least>> \o SortedKeys(keys \ {least})

S_indent == <<" ", " ", " ", " ">>

RECURSIVE DumpMembers(_, _, _)
DumpMembers(meta, keys, i) ==
    IF i > Len(keys) THEN <<>>
    ELSE S_indent \o Quoted(keys[i]) \o <<":", " ">> \o DumpValue(meta[keys[i]])
         \o (IF i < Len(keys) THEN <<",", "\n">> ELSE <<"\n">>)
         \o DumpMembers(meta, keys, i + 1)

\* meta.dump(4) of an object
Dump(meta) ==
    IF DOMAIN meta = {} THEN <<"{", "}">>
    ELSE <<"{", "\n">> \o DumpMembers(meta, SortedKeys(DOMAIN meta), 1) \o <<"}">>

S_trailer == <<"\n", "}">>
S_container_key == <<",", "\n">> \o S_indent
    \o <<"\"","c","o","n","t","a","i","n","e","r","\"",":"," ">>

\* finalize writing the container as a json string, like the other values
finalize_QuotedContainer(loc) ==
    LET res == loc.uid \o <<" ", "=", " ">> \o Dump(loc.meta)
        cut == IF endsWith(res, S_trailer)
               THEN SubSeq(res, 1, Len(res) - Len(S_trailer))
               ELSE res
    IN  IF loc.container # <<>>
        THEN cut \o S_container_key \o Quoted(loc.container) \o S_trailer \o <<"\n">>
        ELSE res \o <<"\n">>

\* QtLocator::finalize
finalize(loc) ==
    LET res == loc.uid \o <<" ", "=", " ">> \o Dump(loc.meta)
        cut == IF endsWith(res, S_trailer)
               THEN SubSeq(res, 1, Len(res) - Len(S_trailer))
               ELSE res
    IN  IF loc.container # <<>>
        THEN cut \o S_container_key \o loc.container \o S_trailer \o <<"\n">>
        ELSE res \o <<"\n">>

\* The renderer the pipeline is built with: std::accumulate of finalize()
RECURSIVE declare_(_)
declare_(qtlocs) ==
    IF qtlocs = <<>> THEN <<>> ELSE finalize(Head(qtlocs)) \o declare_(Tail(qtlocs))

-----------------------------------------------------------------------------
(* The pipeline object before any call, and the converter before any call  *)

Threads == {"t1", "t2"}

PipeInit ==
    /\ _cache = <<>>
    /\ pc = [t \in Threads |-> "idle"]
    /\ xpath = [t \in Threads |-> <<>>]
    /\ tokens = [t \in Threads |-> None]
    /\ xlocs = [t \in Threads |-> None]
    /\ result = [t \in Threads |-> None]
    /\ error = [t \in Threads |-> None]
    /\ ran = [t \in Threads |-> {}]
    /\ entry = [t \in Threads |-> <<>>]
    /\ seen = None

ConvIdle ==
    /\ steps_ = <<>>
    /\ out = None

\* No lexer or parser has been constructed, no helper has been called
LexIdle ==
    /\ input_ = <<>>
    /\ shape = None
    /\ lexed = None
    /\ parsed = None
    /\ located = None

UtilIdle ==
    /\ u_fn = "none"
    /\ u_arg = <<>>
    /\ u_ret = None
    /\ u_again = None

-----------------------------------------------------------------------------
(* SpecConvert: XPathConverter(steps).convert() on bounded step lists      *)

MaxSteps == 3
MaxConds == 2
MaxPosition == 3

SeqsUpTo(S, n) == UNION {[1..k -> S] : k \in 0..n}

S_eq == <<"=">>
S_name == <<"n","a","m","e">>
S_x == <<"x">>
S_a_b == <<"a"," ","b">>
S_a_dash_b == <<"a","-","b">>

AttrConds ==
    {AttributePredicate(S_name, S_x, S_eq),
     AttributePredicate(S_name, S_a_b, S_eq),
     AttributePredicate(K_archetype, S_x, S_eq),
     AttributePredicate(K_visible, S_x, S_eq),
     AttributePredicate(K_occurrence, S_x, S_eq)}
PosConds == {PositionPredicate(n) : n \in 0..MaxPosition}

\* Single steps with every predicate of up to MaxConds conditions.
RichSteps ==
    {XLocator(S_child, tag, pred, FALSE) :
        tag \in {S_star, S_button, S_a_dash_b},
        pred \in {NoPredicate}
            \cup {ComplexPredicate(c) : c \in SeqsUpTo(AttrConds \cup PosConds, MaxConds)}}

\* Steps of the longer step lists.
ChainSteps ==
    {XLocator(axis, tag, pred, TRUE) :
        axis \in {S_child, S_descendant_or_self},
        tag \in {S_star, S_button},
        pred \in {NoPredicate,
                  ComplexPredicate(<<AttributePredicate(S_name, S_a_b, S_eq),
                                     PositionPredicate(1)>>),
                  ComplexPredicate(<<PositionPredicate(2)>>)}}

StepLists == SeqsUpTo(ChainSteps, MaxSteps) \cup {<<s>> : s \in RichSteps}

ConvInit ==
    /\ PipeInit
    /\ LexIdle
    /\ UtilIdle
    /\ steps_ \in StepLists
    /\ out = None

Convert ==
    /\ out = None
    /\ out' = Some(convert(steps_))
    /\ UNCHANGED <<steps_, pipeVars, lexVars, utilVars>>

ConvNext == Convert

SpecConvert == ConvInit /\ [][ConvNext]_vars

-----------------------------------------------------------------------------
(* The inputs of the pipeline                                              *)

\* //div[@class='header']/span[1]/text()
X_header ==
    <<"/","/","d","i","v","[","@","c","l","a","s","s","=","'","h","e","a","d","e","r","'","]","/","s","p","a","n","[","1","]","/","t","e","x","t","(",")">>
\* //*[@name='content']//button[2]
X_content ==
    <<"/","/","*","[","@","n","a","m","e","=","'","c","o","n","t","e","n","t","'","]","/","/","b","u","t","t","o","n","[","2","]">>
\* //button[@name='submit' and @enabled='true']
X_submit ==
    <<"/","/","b","u","t","t","o","n","[","@","n","a","m","e","=","'","s","u","b","m","i","t","'"," ","a","n","d"," ","@","e","n","a","b","l","e","d","=","'","t","r","u","e","'","]">>
\* //button[@archetype='x']
X_archetype ==
    <<"/","/","b","u","t","t","o","n","[","@","a","r","c","h","e","t","y","p","e","=","'","x","'","]">>
\* ///a
X_slashes ==
    <<"/","/","/","a">>
\* (the empty string)
X_empty ==
    <<>>
\* //button[@name='x]
X_unterminated ==
    <<"/","/","b","u","t","t","o","n","[","@","n","a","m","e","=","'","x","]">>
\* //a/
X_noNodeTest ==
    <<"/","/","a","/">>
\* //a/b[=]
X_badPredicate ==
    <<"/","/","a","/","b","[","=","]">>
\* //a[@]
X_badAttribute ==
    <<"/","/","a","[","@","]">>
\* //a/b[1
X_unclosed ==
    <<"/","/","a","/","b","[","1">>

GoodInputs ==
    {X_header, X_content, X_submit, X_archetype, X_slashes, X_empty}
\* An unterminated literal, a missing node test, an unexpected token in a
\* predicate (twice) and a missing closing bracket.
BadInputs == {X_unterminated, X_noNodeTest, X_badPredicate, X_badAttribute, X_unclosed}
Inputs == GoodInputs \cup BadInputs
ConcurrentInputs == {X_content, X_slashes, X_empty, X_unclosed}

-----------------------------------------------------------------------------
(* class QtPythonDeclarationsFrom: operator() as the steps of a thread.    *)
(* pc: idle -> tokenize -> parse -> convert -> declare -> returned, or     *)
(* thrown when a stage throws; then back to idle.                          *)

\* line 485 with the locators appended to the cache
StoreCache_Append(cache, locators) == cache \o locators

\* line 485: _cache = convert_(xlocs)
StoreCache(cache, locators) == locators

\* operator() is entered with xpath = x
Enter(t, x) ==
    /\ pc' = [pc EXCEPT ![t] = "tokenize"]
    /\ xpath' = [xpath EXCEPT ![t] = x]
    /\ tokens' = [tokens EXCEPT ![t] = None]
    /\ xlocs' = [xlocs EXCEPT ![t] = None]
    /\ result' = [result EXCEPT ![t] = None]
    /\ error' = [error EXCEPT ![t] = None]
    /\ ran' = [ran EXCEPT ![t] = {}]
    /\ entry' = [entry EXCEPT ![t] = _cache]
    /\ UNCHANGED <<_cache, seen, convVars, lexVars, utilVars>>

\* A call while no other call of the object is running
Call(t) ==
    /\ \A u \in Threads : pc[u] = "idle"
    /\ \E x \in Inputs : Enter(t, x)

\* A call while other threads may be inside operator(), on another input
CallConcurrent(t) ==
    /\ pc[t] = "idle"
    /\ \E x \in ConcurrentInputs :
        /\ \A u \in Threads \ {t} : pc[u] # "idle" => xpath[u] # x
        /\ Enter(t, x)

\* line 483: auto tokens = tokenize_(xpath);
Tokenize(t) ==
    /\ pc[t] = "tokenize"
    /\ LET r == tokenize(xpath[t])
       IN  /\ tokens' = [tokens EXCEPT ![t] = r.tokens]
           /\ error' = [error EXCEPT ![t] = r.error]
           /\ pc' = [pc EXCEPT ![t] = IF r.error.some THEN "thrown" ELSE "parse"]
    /\ ran' = [ran EXCEPT ![t] = @ \cup {"tokenize"}]
    /\ UNCHANGED <<_cache, xpath, xlocs, result, entry, seen, convVars, lexVars, utilVars>>

\* The parse stage of a pipeline that resets _cache when the stage throws
Parse_ClearsCache(t) ==
    /\ pc[t] = "parse"
    /\ LET r == parse(tokens[t].val)
       IN  /\ xlocs' = [xlocs EXCEPT ![t] = r.steps]
           /\ error' = [error EXCEPT ![t] = r.error]
           /\ pc' = [pc EXCEPT ![t] = IF r.error.some THEN "thrown" ELSE "convert"]
           /\ _cache' = IF r.error.some THEN <<>> ELSE _cache
    /\ ran' = [ran EXCEPT ![t] = @ \cup {"parse"}]
    /\ UNCHANGED <<xpath, tokens, result, entry, seen, convVars, lexVars, utilVars>>

\* line 484: auto xlocs = parse_(tokens);
Parse(t) ==
    /\ pc[t] = "parse"
    /\ LET r == parse(tokens[t].val)
       IN  /\ xlocs' = [xlocs EXCEPT ![t] = r.steps]
           /\ error' = [error EXCEPT ![t] = r.error]
           /\ pc' = [pc EXCEPT ![t] = IF r.error.some THEN "thrown" ELSE "convert"]
    /\ ran' = [ran EXCEPT ![t] = @ \cup {"parse"}]
    /\ UNCHANGED <<_cache, xpath, tokens, result, entry, seen, convVars, lexVars, utilVars>>

\* line 485: _cache = convert_(xlocs);
ConvertToCache(t) ==
    /\ pc[t] = "convert"
    /\ _cache' = StoreCache(_cache, convert(xlocs[t].val))
    /\ pc' = [pc EXCEPT ![t] = "declare"]
    /\ ran' = [ran EXCEPT ![t] = @ \cup {"convert"}]
    /\ UNCHANGED <<xpath, tokens, xlocs, result, error, entry, seen, convVars, lexVars, utilVars>>

\* line 487: return declare_(_cache);  `locators` is the vector declare_ was given
Declare(t) ==
    /\ pc[t] = "declare"
    /\ result' = [result EXCEPT ![t] = Some([text |-> declare_(_cache), locators |-> _cache])]
    /\ pc' = [pc EXCEPT ![t] = "returned"]
    /\ ran' = [ran EXCEPT ![t] = @ \cup {"declare"}]
    /\ UNCHANGED <<_cache, xpath, tokens, xlocs, error, entry, seen, convVars, lexVars, utilVars>>

\* The caller has the outcome; the locals of operator() are gone.
Forget(t) ==
    /\ pc' = [pc EXCEPT ![t] = "idle"]
    /\ xpath' = [xpath EXCEPT ![t] = <<>>]
    /\ tokens' = [tokens EXCEPT ![t] = None]
    /\ xlocs' = [xlocs EXCEPT ![t] = None]
    /\ result' = [result EXCEPT ![t] = None]
    /\ error' = [error EXCEPT ![t] = None]
    /\ ran' = [ran EXCEPT ![t] = {}]
    /\ entry' = [entry EXCEPT ![t] = <<>>]
    /\ UNCHANGED <<_cache, convVars, lexVars, utilVars>>

\* The call is over.  `seen` keeps one invocation, any one, with its outcome and
\* with how the invocations after it ended.
Return(t) ==
    /\ pc[t] \in {"returned", "thrown"}
    /\ Forget(t)
    /\ \/ /\ ~seen.some
          /\ seen' = Some([xpath |-> xpath[t], result |-> result[t], error |-> error[t],
                           since |-> {}])
       \/ /\ ~seen.some
          /\ seen' = seen
       \/ /\ seen.some
          /\ seen' = Some([seen.val EXCEPT !.since = @ \cup {pc[t]}])

\* The call is over (nothing is remembered).
Leave(t) ==
    /\ pc[t] \in {"returned", "thrown"}
    /\ Forget(t)
    /\ UNCHANGED seen

Init == PipeInit /\ ConvIdle /\ LexIdle /\ UtilIdle

\* One caller at a time: the calls of one pipeline object follow one another.
Next ==
    \E t \in Threads :
        \/ Call(t)
        \/ Tokenize(t)
        \/ Parse(t)
        \/ ConvertToCache(t)
        \/ Declare(t)
        \/ Return(t)

Spec == Init /\ [][Next]_vars

\* Two threads call the same pipeline object with no locking.  The unsynchronized
\* accesses to _cache are interleaved as whole assignments and whole reads.
NextConcurrent ==
    \E t \in Threads :
        \/ CallConcurrent(t)
        \/ Tokenize(t)
        \/ Parse(t)
        \/ ConvertToCache(t)
        \/ Declare(t)
        \/ Leave(t)

SpecConcurrent == Init /\ [][NextConcurrent]_vars

-----------------------------------------------------------------------------
(* SpecUtil: one call of the classifier, or util::canonicalize applied to   *)
(* a string and then to its own result                                      *)

MaxText == 4

ToUpper(c) == IF c \in Range(LowerSeq) THEN UpperSeq[IndexOf(LowerSeq, c)] ELSE c
Upper(s) == [i \in 1..Len(s) |-> ToUpper(s[i])]
Capitalized(s) == [i \in 1..Len(s) |-> IF i = 1 THEN ToUpper(s[i]) ELSE s[i]]

S_div == <<"d","i","v">>
S_s == <<"s">>

\* Tags around the words of the rules, in three spellings
TagWords ==
    {S_button, S_container, S_form, S_textfield, S_checkbox, S_radiobutton, S_combobox,
     S_slider, S_label, S_view, S_field, S_text, S_panel, S_div, S_star, <<>>}
LowerTags ==
    {pre \o w \o suf : pre \in {<<>>, S_x, S_form, S_text}, w \in TagWords,
                       suf \in {<<>>, S_s}}
Tags == LowerTags \cup {Upper(t) : t \in LowerTags} \cup {Capitalized(t) : t \in LowerTags}

CanonChars == {"a", "B", "7", "_", "-"}
Texts == SeqsUpTo(CanonChars, MaxText)

UtilInit ==
    /\ PipeInit
    /\ ConvIdle
    /\ LexIdle
    /\ \/ u_fn = "classifier" /\ u_arg \in Tags
       \/ u_fn = "canonicalize" /\ u_arg \in Texts
    /\ u_ret = None
    /\ u_again = None

Classify ==
    /\ u_fn = "classifier"
    /\ u_ret = None
    /\ u_ret' = Some(classifier_(u_arg))
    /\ UNCHANGED <<u_fn, u_arg, u_again, pipeVars, convVars, lexVars>>

Canonicalize ==
    /\ u_fn = "canonicalize"
    /\ u_ret = None
    /\ u_ret' = Some(canonicalize(u_arg))
    /\ UNCHANGED <<u_fn, u_arg, u_again, pipeVars, convVars, lexVars>>

CanonicalizeAgain ==
    /\ u_fn = "canonicalize"
    /\ u_ret.some
    /\ u_again = None
    /\ u_again' = Some(canonicalize(u_ret.val))
    /\ UNCHANGED <<u_fn, u_arg, u_ret, pipeVars, convVars, lexVars>>

UtilNext == Classify \/ Canonicalize \/ CanonicalizeAgain

SpecUtil == UtilInit /\ [][UtilNext]_vars

-----------------------------------------------------------------------------
(* SpecLex: XPathLexer(input).tokenize(), XPathParser(tokens).parse() and   *)
(* XPathConverter(steps).convert() on written inputs.  `shape` records how  *)
(* the input was written.                                                   *)

MaxLen == 4
MaxNodes == 3

RECURSIVE Concat(_)
Concat(ss) == IF ss = <<>> THEN <<>> ELSE Head(ss) \o Concat(Tail(ss))

\* Every string of up to MaxLen of these characters
LexChars == {"/", "a", "=", "!", "'", "\\", " "}
QuoteChars == {"'", "\"", "\\", "a"}
CharInputs == SeqsUpTo(LexChars, MaxLen) \cup SeqsUpTo(QuoteChars, MaxLen)

\* Paths: node tests with an optional predicate, each after one separator
S_slash == <<"/">>
S_slashslash == <<"/","/">>
S_span == <<"s","p","a","n">>
S_textfn == <<"t","e","x","t","(",")">>
P_two == <<"[","2","]">>
P_one == <<"[","1","]">>
P_header == <<"[","@","c","l","a","s","s","=","'","h","e","a","d","e","r","'","]">>
P_content == <<"[","@","n","a","m","e","=","'","c","o","n","t","e","n","t","'","]">>
Node(sep, test, pred) == [sep |-> sep, test |-> test, pred |-> pred]
Nodes == {Node(sep, test, pred) : sep \in {S_slash, S_slashslash}, test \in {S_div, S_star},
                                  pred \in {<<>>, P_two}}
\* the two paths of the README
PathA == <<Node(S_slashslash, S_div, P_header), Node(S_slash, S_span, P_one),
           Node(S_slash, S_textfn, <<>>)>>
PathB == <<Node(S_slashslash, S_star, P_content), Node(S_slashslash, S_button, P_two)>>
Paths == (SeqsUpTo(Nodes, MaxNodes) \ {<<>>}) \cup {PathA, PathB}
WrittenPath(nodes) == Concat([i \in 1..Len(nodes) |-> nodes[i].sep \o nodes[i].test \o nodes[i].pred])

\* One step written name::test, after no separator or one
S_coloncolon == <<":",":">>
S_a == <<"a">>
S_c == <<"c">>
S_descendant == <<"d","e","s","c","e","n","d","a","n","t">>
S_following_sibling == <<"f","o","l","l","o","w","i","n","g","-","s","i","b","l","i","n","g">>
AxisNames == {S_c, S_child, S_descendant, S_following_sibling}
AxisSteps ==
    {[sep |-> sep, name |-> name, test |-> test] :
        sep \in {<<>>, S_slash, S_slashslash}, name \in AxisNames, test \in {S_a, S_star}}
WrittenAxisStep(a) == a.sep \o a.name \o S_coloncolon \o a.test

\* One step a[@b OP 'x'] or a[b OP 'x'], OP one or two of the operator characters
S_b == <<"b">>
S_at == <<"@">>
S_quoted_x == <<"'","x","'">>
OperatorChars == {"=", "!", "<", ">"}
OperatorTexts == {<<c>> : c \in OperatorChars} \cup {<<c, d>> : c \in OperatorChars, d \in OperatorChars}
Comparisons == {[marker |-> m, op |-> op] : m \in {<<>>, S_at}, op \in OperatorTexts}
WrittenComparison(c) == S_a \o S_open \o c.marker \o S_b \o c.op \o S_quoted_x \o S_close

\* One step a[ followed by up to MaxPieces of these pieces
MaxPieces == 4
P_and == <<" ","a","n","d"," ">>
P_or == <<" ","o","r"," ">>
P_space == <<" ">>
S_2 == <<"2">>
PredPieces == {S_at, S_b, S_eq, S_quoted_x, S_2, P_and, S_close}
PredBodies == SeqsUpTo(PredPieces, MaxPieces)
WrittenPredicate(body) == S_a \o S_open \o Concat(body)

\* //button[c1 K c2 ...]: up to MaxConds conditions, K one connective or a space
Written(text, condition) == [text |-> text, condition |-> condition]
S_submit == <<"s","u","b","m","i","t">>
S_enabled == <<"e","n","a","b","l","e","d">>
S_true == <<"t","r","u","e">>
S_quote == <<"'">>
WrittenConds ==
    {Written(S_at \o S_name \o S_eq \o S_quote \o S_submit \o S_quote,
             AttributePredicate(S_name, S_submit, S_eq)),
     Written(S_at \o S_enabled \o S_eq \o S_quote \o S_true \o S_quote,
             AttributePredicate(S_enabled, S_true, S_eq)),
     Written(S_at \o S_name \o S_eq \o S_quote \o S_star \o S_quote,
             AttributePredicate(S_name, S_star, S_eq)),
     Written(<<"b",">","3">>, AttributePredicate(S_b, <<"3">>, <<">">>)),
     Written(S_2, PositionPredicate(2))}
Connectives == {P_and, P_or, P_space}
CondLists ==
    {[conds |-> cs, connective |-> k] :
        cs \in SeqsUpTo(WrittenConds, MaxConds) \ {<<>>}, k \in Connectives}
RECURSIVE Join(_, _)
Join(ss, sep) ==
    IF ss = <<>> THEN <<>>
    ELSE IF Len(ss) = 1 THEN ss[1]
    ELSE ss[1] \o sep \o Join(Tail(ss), sep)
WrittenCondList(l) ==
    <<"/","/">> \o S_button \o S_open
        \o Join([i \in 1..Len(l.conds) |-> l.conds[i].text], l.connective) \o S_close

\* book[NAME OP VALUE], alone or inside the path of the spec's scenario
S_book == <<"b","o","o","k">>
S_price == <<"p","r","i","c","e">>
S_35 == <<"3","5">>
P_bookstore == <<"/","/","b","o","o","k","s","t","o","r","e","/">>
P_title == <<"/","t","i","t","l","e">>
P_escaped == <<"'","a","\\","'","b","'">>
\* a written value and the text of its token: a literal's text is what stands
\* between its quotes
WrittenValue(text, raw) == [text |-> text, raw |-> raw]
BareValues ==
    {WrittenValue(S_35, S_35), WrittenValue(S_quoted_x, S_x),
     WrittenValue(P_escaped, <<"a","\\","'","b">>)}
BareComparisons ==
    {[before |-> pre, name |-> n, op |-> op, value |-> v, after |-> suf] :
        pre \in {<<>>, P_bookstore}, n \in {S_price, S_2, S_and, S_b},
        op \in {<<">">>, <<"=">>, <<"!","=">>}, v \in BareValues,
        suf \in {<<>>, P_title}}
WrittenBare(c) ==
    c.before \o S_book \o S_open \o c.name \o c.op \o c.value.text \o S_close \o c.after

\* Strings with the character NUL
NulChars == {NUL, "a", ":", " "}
NulInputs == SeqsUpTo(NulChars, MaxLen)

Shape(family, pieces) == Some([family |-> family, pieces |-> pieces])

LexInit ==
    /\ PipeInit
    /\ ConvIdle
    /\ UtilIdle
    /\ \/ input_ \in CharInputs /\ shape = Shape("chars", <<>>)
       \/ \E nodes \in Paths : input_ = WrittenPath(nodes) /\ shape = Shape("path", nodes)
       \/ \E a \in AxisSteps : input_ = WrittenAxisStep(a) /\ shape = Shape("axis", <<a>>)
       \/ \E c \in Comparisons :
             input_ = WrittenComparison(c) /\ shape = Shape("comparison", <<c>>)
       \/ \E body \in PredBodies :
             input_ = WrittenPredicate(body) /\ shape = Shape("predicate", body)
       \/ \E l \in CondLists : input_ = WrittenCondList(l) /\ shape = Shape("conditions", <<l>>)
       \/ \E c \in BareComparisons : input_ = WrittenBare(c) /\ shape = Shape("bare", <<c>>)
       \/ input_ \in NulInputs /\ shape = Shape("nul", <<>>)
    /\ lexed = None
    /\ parsed = None
    /\ located = None

\* XPathLexer(input_).tokenize()
LexTokenize ==
    /\ lexed = None
    /\ lexed' = Some(tokenize(input_))
    /\ UNCHANGED <<input_, shape, parsed, located, pipeVars, convVars, utilVars>>

\* XPathParser(tokens).parse() on the tokens the lexer returned
LexParse ==
    /\ lexed.some
    /\ lexed.val.tokens.some
    /\ parsed = None
    /\ parsed' = Some(parse(lexed.val.tokens.val))
    /\ UNCHANGED <<input_, shape, lexed, located, pipeVars, convVars, utilVars>>

\* XPathConverter(steps).convert() on the steps the parser returned
LexConvert ==
    /\ parsed.some
    /\ parsed.val.steps.some
    /\ located = None
    /\ located' = Some(convert(parsed.val.steps.val))
    /\ UNCHANGED <<input_, shape, lexed, parsed, pipeVars, convVars, utilVars>>

LexNext == LexTokenize \/ LexParse \/ LexConvert

SpecLex == LexInit /\ [][LexNext]_vars

-----------------------------------------------------------------------------
(* Claims about the converter, checked under SpecConvert                   *)

Conditions(step) == IF step.predicate.has THEN step.predicate.conditions ELSE <<>>
AttributesOf(step) == SelectSeq(Conditions(step), LAMBDA c : c.kind = "attribute")
PositionsOf(step) == SelectSeq(Conditions(step), LAMBDA c : c.kind = "position")

RECURSIVE AttrText(_)
AttrText(attrs) ==
    IF attrs = <<>> THEN <<>>
    ELSE S_us \o Head(attrs).name \o S_us \o Head(attrs).value \o AttrText(Tail(attrs))

Converted == out.some /\ DOMAIN out.val = DOMAIN steps_

\* C1: every locator's uid is canonicalize(P + token + "_" + category + A): P the
\* previous locator's uid followed by "_" (empty for the first locator), token the
\* node-test text or "any" for the wildcard, category the classifier's label of
\* the step, A the "_" + name + "_" + value of the attribute conditions in order.
C1_UidIsCanonicalJoin ==
    out.some =>
        /\ DOMAIN out.val = DOMAIN steps_
        /\ \A i \in DOMAIN steps_ :
            LET P == IF i = 1 THEN <<>> ELSE out.val[i - 1].uid \o S_us
                token == IF steps_[i].tag = S_star THEN S_any ELSE steps_[i].tag
            IN  out.val[i].uid =
                    canonicalize(P \o token \o S_us \o classifier_(steps_[i].tag)
                                   \o AttrText(AttributesOf(steps_[i])))

\* C1's case: a wildcard first step, then a step with an attribute condition whose
\* value is not alphanumeric and a position condition.
C1_Witness ==
    /\ Converted
    /\ Len(steps_) >= 2
    /\ steps_[1].tag = S_star
    /\ Len(AttributesOf(steps_[2])) > 0
    /\ Len(PositionsOf(steps_[2])) > 0
    /\ out.val[2].uid # out.val[1].uid

\* C2: the first locator has no container and every later locator's container is
\* the uid of the locator emitted just before it, whatever the steps' axes.
C2_ContainerChain ==
    out.some =>
        \A i \in DOMAIN out.val :
            out.val[i].container = IF i = 1 THEN <<>> ELSE out.val[i - 1].uid

\* C2's case: three locators from steps of different axes.
C2_Witness ==
    /\ Converted
    /\ Len(out.val) = 3
    /\ steps_[1].axis # steps_[2].axis
    /\ steps_[2].axis # steps_[3].axis
    /\ out.val[3].container # <<>>

\* C8: every locator's metadata holds "archetype" with the classifier's label of
\* the step's node test and "visible" with 1, whatever the predicate's conditions.
C8_ArchetypeAndVisible ==
    Converted =>
        \A i \in DOMAIN steps_ :
            /\ K_archetype \in DOMAIN out.val[i].meta
            /\ out.val[i].meta[K_archetype] = JString(classifier_(steps_[i].tag))
            /\ K_visible \in DOMAIN out.val[i].meta
            /\ out.val[i].meta[K_visible] = JNumber(1)

\* C9: the metadata maps the name of every attribute condition of the step to that
\* condition's value, and n attribute conditions give n entries besides the
\* category, visible and occurrence entries.
C9_OneEntryPerAttribute ==
    Converted =>
        \A i \in DOMAIN steps_ :
            LET attrs == AttributesOf(steps_[i])
                meta == out.val[i].meta
            IN  /\ \A j \in DOMAIN attrs :
                    /\ attrs[j].name \in DOMAIN meta
                    /\ meta[attrs[j].name] = JString(attrs[j].value)
                /\ Cardinality(DOMAIN meta \ {K_archetype, K_visible, K_occurrence})
                       = Len(attrs)

\* C10: the metadata has an "occurrence" entry only when the step has a position
\* condition whose index exceeds 1, and then its value is that index.
C10_OccurrenceOnlyFromPosition ==
    Converted =>
        \A i \in DOMAIN steps_ :
            LET big == {p.position : p \in {c \in Range(PositionsOf(steps_[i])) : c.position > 1}}
                meta == out.val[i].meta
            IN  /\ K_occurrence \in DOMAIN meta <=> big # {}
                /\ K_occurrence \in DOMAIN meta =>
                       \E n \in big : meta[K_occurrence] = JNumber(n)

-----------------------------------------------------------------------------
(* Claims about the pipeline                                               *)

\* The rendering of the locators of input x, stage by stage.
RenderingOf(x) == declare_(convert(parse(tokenize(x).tokens.val).steps.val))

\* C3: when the input tokenizes and parses, convert emits as many locators as
\* there are parsed steps, and locator i is the one built from step i.
C3_OneLocatorPerStep ==
    \A t \in Threads :
        pc[t] \in {"declare", "returned"} =>
            /\ Len(_cache) = Len(xlocs[t].val)
            /\ \A i \in DOMAIN _cache :
                _cache[i] = ConvertStep(IF i = 1 THEN <<>> ELSE _cache[i - 1].uid,
                                        xlocs[t].val[i])

\* C3's case: three steps parsed and converted, a wildcard step among the inputs.
C3_Witness ==
    \E t \in Threads :
        /\ pc[t] = "declare"
        /\ Len(xlocs[t].val) = 3
        /\ Len(_cache) = 3

\* C4: a call on the same pipeline object with the same input as an earlier call
\* has the same outcome: the same text, the same locators (uids, metadata,
\* containers), or the same failure, whatever calls came in between.
C4_Deterministic ==
    \A t \in Threads :
        (seen.some /\ pc[t] \in {"returned", "thrown"} /\ xpath[t] = seen.val.xpath) =>
            /\ result[t] = seen.val.result
            /\ error[t] = seen.val.error

\* C4's case: the same input again after a successful and a failing call that
\* left other locators in the cache.
C4_Witness ==
    \E t \in Threads :
        /\ seen.some
        /\ pc[t] = "returned"
        /\ xpath[t] = seen.val.xpath
        /\ seen.val.since = {"returned", "thrown"}
        /\ Len(result[t].val.locators) >= 2
        /\ entry[t] # <<>>
        /\ entry[t] # result[t].val.locators

\* C5: under every interleaving of two threads calling the same pipeline object
\* on different inputs, each call returns the rendering of its own input.
C5_ReturnsOwnRendering ==
    \A t \in Threads :
        pc[t] = "returned" => result[t].val.text = RenderingOf(xpath[t])

\* C6: when operator() returns, every field of the pipeline object has the value
\* it had when the call was entered.
C6_NoRetainedState ==
    \A t \in Threads :
        pc[t] = "returned" => _cache = entry[t]

\* C7: an invocation whose input fails to tokenize or parse ends in an error: no
\* step list, no locators and no text are returned, and convert and declare are
\* not run for it.
C7_FailureAbortsInvocation ==
    \A t \in Threads :
        /\ (pc[t] # "idle" /\ xpath[t] \in BadInputs) =>
            /\ pc[t] \in {"tokenize", "parse", "thrown"}
            /\ xlocs[t] = None
            /\ result[t] = None
            /\ ran[t] \cap {"convert", "declare"} = {}
        /\ pc[t] = "thrown" =>
            /\ error[t].some
            /\ xlocs[t] = None
            /\ result[t] = None
            /\ ran[t] \cap {"convert", "declare"} = {}

\* C7's case: parsing fails after a complete step was parsed, on an object whose
\* earlier call succeeded.
C7_Witness ==
    \E t \in Threads :
        /\ pc[t] = "thrown"
        /\ xpath[t] = X_unclosed
        /\ ran[t] = {"tokenize", "parse"}
        /\ _cache # <<>>

-----------------------------------------------------------------------------
(* Claims about the classifier and util::canonicalize, checked under       *)
(* SpecUtil                                                                *)

Lowered(s) == [i \in 1..Len(s) |-> ToLower(s[i])]

\* The rule list the claims speak of: exact matches, suffixes, substrings
Rule(how, key, label) == [how |-> how, key |-> key, label |-> label]
Rules ==
    <<Rule("equals", S_button, PushButtonQT),
      Rule("equals", S_container, ScrollViewQT),
      Rule("equals", S_form, ModuleQT),
      Rule("equals", S_textfield, TextFieldQT),
      Rule("suffix", S_button, PushButtonQT),
      Rule("suffix", S_checkbox, CheckBoxQT),
      Rule("suffix", S_radiobutton, RadioButtonQT),
      Rule("suffix", S_combobox, ComboBoxQT),
      Rule("suffix", S_slider, SliderQT),
      Rule("suffix", S_label, LabelQT),
      Rule("suffix", S_view, ScrollViewQT),
      Rule("suffix", S_field, TextFieldQT),
      Rule("substring", S_button, PushButtonQT),
      Rule("substring", S_field, TextFieldQT),
      Rule("substring", S_text, TextFieldQT),
      Rule("substring", S_container, ScrollViewQT),
      Rule("substring", S_panel, ScrollViewQT),
      Rule("substring", S_form, ModuleQT)>>
Labels == {Rules[i].label : i \in DOMAIN Rules} \cup {QWidget}

Matches(r, t) ==
    LET n == Len(r.key)
    IN  CASE r.how = "equals" -> t = r.key
          [] r.how = "suffix" -> Len(t) >= n /\ SubSeq(t, Len(t) - n + 1, Len(t)) = r.key
          [] OTHER -> \E i \in 1..(Len(t) - n + 1) : SubSeq(t, i, i + n - 1) = r.key
Matching(t) == {i \in DOMAIN Rules : Matches(Rules[i], t)}
FirstMatch(t) ==
    IF Matching(t) = {} THEN QWidget
    ELSE Rules[CHOOSE i \in Matching(t) : \A j \in Matching(t) : i <= j].label

\* C11: the label the classifier returns is the label of the first rule, in the
\* order exact matches, suffixes, substrings, that the lower-cased tag matches, and
\* QWidget when none matches; a tag equal to an exact-match entry gets that entry's
\* label.
C11_FirstMatchWins ==
    (u_fn = "classifier" /\ u_ret.some) =>
        LET t == Lowered(u_arg)
        IN  /\ u_ret.val = FirstMatch(t)
            /\ \A i \in DOMAIN Rules :
                   (Rules[i].how = "equals" /\ t = Rules[i].key) => u_ret.val = Rules[i].label

\* A tag that matches rules of different labels has been classified.
C11_Witness ==
    /\ u_fn = "classifier"
    /\ u_ret.some
    /\ Cardinality({Rules[i].label : i \in Matching(Lowered(u_arg))}) > 1

\* C12: the classifier returns a label for every tag, the empty tag and "*"
\* included, and tags that differ only in letter case get the same label.
C12_CaseInsensitiveTotal ==
    (u_fn = "classifier" /\ u_ret.some) =>
        /\ u_ret.val \in Labels
        /\ \A t \in Tags : Lowered(t) = Lowered(u_arg) => classifier_(t) = u_ret.val

\* A tag with upper-case letters has been given the label of a rule.
C12_Witness ==
    /\ u_fn = "classifier"
    /\ u_ret.some
    /\ u_arg # Lowered(u_arg)
    /\ u_ret.val # QWidget

\* C13: canonicalize applied to its own result returns that result.
C13_Idempotent ==
    (u_fn = "canonicalize" /\ u_again.some) => u_again.val = u_ret.val

\* canonicalize has been applied twice, and the first time it changed the string.
C13_Witness ==
    /\ u_fn = "canonicalize"
    /\ u_again.some
    /\ u_ret.val # u_arg
    /\ u_ret.val # <<>>

\* s with every maximal run of non-alphanumeric characters replaced by one '_',
\* the runs at the two ends removed
RunsReplaced(s) ==
    LET Starts(i) == ~IsAlnum(s[i]) /\ (i = 1 \/ IsAlnum(s[i - 1]))
        Inner(i) == (\E j \in 1..i : IsAlnum(s[j])) /\ (\E j \in i..Len(s) : IsAlnum(s[j]))
        kept == SelectSeq([i \in 1..Len(s) |-> i],
                          LAMBDA i : IsAlnum(s[i]) \/ (Starts(i) /\ Inner(i)))
    IN  [k \in 1..Len(kept) |-> IF IsAlnum(s[kept[k]]) THEN s[kept[k]] ELSE "_"]

\* C14: canonicalize(s) is s with each maximal run of non-alphanumeric characters
\* replaced by one underscore and the underscores at the ends removed: only
\* alphanumerics and underscores, no two underscores in a row, none at either
\* end, the alphanumeric characters of s kept in order.
C14_RunsCollapsedEndsTrimmed ==
    (u_fn = "canonicalize" /\ u_ret.some) =>
        LET r == u_ret.val
        IN  /\ r = RunsReplaced(u_arg)
            /\ \A i \in 1..Len(r) : IsAlnum(r[i]) \/ r[i] = "_"
            /\ \A i \in 1..(Len(r) - 1) : ~(r[i] = "_" /\ r[i + 1] = "_")
            /\ Len(r) > 0 => (r[1] # "_" /\ r[Len(r)] # "_")
            /\ SelectSeq(r, IsAlnum) = SelectSeq(u_arg, IsAlnum)

\* A string that starts with a non-alphanumeric character and has two of them in
\* a row has been canonicalized to a non-empty string.
C14_Witness ==
    /\ u_fn = "canonicalize"
    /\ u_ret.some
    /\ u_ret.val # <<>>
    /\ ~IsAlnum(u_arg[1])
    /\ \E i \in 1..(Len(u_arg) - 1) : ~IsAlnum(u_arg[i]) /\ ~IsAlnum(u_arg[i + 1])

-----------------------------------------------------------------------------
(* Claims about the lexer and the parser, checked under SpecLex            *)

Lexed == lexed.some /\ lexed.val.tokens.some
Parsed == parsed.some /\ parsed.val.steps.some
Toks == lexed.val.tokens.val
Steps == parsed.val.steps.val

SyntheticStep == XLocator(S_descendant_or_self, S_star, NoPredicate, TRUE)
IsSlash(tok) == tok.type = "Slash"
IsNodeTest(tok) == tok.type \in {"Tag", "Wildcard"}

\* C15 as stated: when the separator the parser consumes first is the double-slash
\* form and a node test follows, the first step is the synthetic step
\* {descendant-or-self, wildcard, no predicate, absolute} and the node test is parsed
\* as the step after it.
C15_DoubleSlashEmitsStep ==
    (Parsed /\ IsSlash(Toks[1]) /\ Toks[1].value = S_slashslash /\ IsNodeTest(Toks[2])) =>
        /\ Len(Steps) >= 2
        /\ Steps[1] = SyntheticStep
        /\ Steps[2].tag = Toks[2].value

\* The separator tokens the parser consumes two at a time
RECURSIVE SlashPairs(_, _)
SlashPairs(toks, i) ==
    IF i >= Len(toks) THEN 0
    ELSE IF IsSlash(toks[i]) /\ IsSlash(toks[i + 1]) THEN 1 + SlashPairs(toks, i + 2)
    ELSE SlashPairs(toks, i + 1)

\* C15 as amended: the synthetic step is emitted when, and only when, the separator
\* token the parser consumed is directly followed by a second separator token; a
\* single separator token, `/` or `//`, before a node test only marks the node
\* test's step absolute.
C15_SlashPairEmitsStep ==
    Parsed =>
        /\ (IsSlash(Toks[1]) /\ IsSlash(Toks[2])) =>
               /\ Len(Steps) >= 1
               /\ Steps[1] = SyntheticStep
        /\ (IsSlash(Toks[1]) /\ IsNodeTest(Toks[2])) =>
               /\ Len(Steps) >= 1
               /\ Steps[1].tag = Toks[2].value
               /\ Steps[1].axis = S_child
               /\ Steps[1].is_absolute
        /\ Len(SelectSeq(Steps, LAMBDA st : st.axis = S_descendant_or_self))
               = SlashPairs(Toks, 1)

\* A path that starts with two separator tokens and a node test has been parsed.
C15_Witness ==
    /\ Parsed
    /\ Len(Toks) >= 4
    /\ IsSlash(Toks[1]) /\ IsSlash(Toks[2]) /\ IsNodeTest(Toks[3])
    /\ Len(Steps) = 2

\* The token a node test contributes to the uid
UidToken(test) == IF test = S_star THEN S_any ELSE test
StartsWith(str, prefix) ==
    Len(str) >= Len(prefix) /\ SubSeq(str, 1, Len(prefix)) = prefix

\* C16: a path of k node tests, each after exactly one separator `/` or `//`, is
\* tokenized and parsed without error into exactly k steps, step i carrying node
\* test i, and converted into k locators, the first uid starting with the first
\* node test's token; 3 for the README's first path and 2 for its second.
C16_OneStepPerNodeTest ==
    (shape.some /\ shape.val.family = "path") =>
        LET nodes == shape.val.pieces
        IN  /\ lexed.some => lexed.val.tokens.some
            /\ parsed.some =>
                   /\ parsed.val.steps.some
                   /\ Len(Steps) = Len(nodes)
                   /\ \A i \in 1..Len(nodes) : Steps[i].tag = nodes[i].test
            /\ located.some =>
                   /\ Len(located.val) = Len(nodes)
                   /\ StartsWith(located.val[1].uid, UidToken(nodes[1].test))
                   /\ input_ = X_header => Len(located.val) = 3
                   /\ input_ = X_content => Len(located.val) = 2

\* The README's first path has been tokenized, parsed and converted.
C16_Witness ==
    /\ input_ = X_header
    /\ shape.val.family = "path"
    /\ located.some
    /\ Len(located.val) = 3

\* C17: a token sequence tokenize returns ends with an End token whose position
\* is the length of the input, and holds no other End token; an input of
\* whitespace only, the empty input included, gives the End token alone.
C17_EndsWithEndMarker ==
    Lexed =>
        /\ Len(Toks) >= 1
        /\ Toks[Len(Toks)].type = "End"
        /\ Toks[Len(Toks)].position = Len(input_)
        /\ \A i \in 1..(Len(Toks) - 1) : Toks[i].type # "End"
        /\ (\A i \in 1..Len(input_) : IsSpace(input_[i])) => Len(Toks) = 1

\* An input with tokens and trailing whitespace has been tokenized.
C17_Witness ==
    /\ Lexed
    /\ Len(Toks) >= 3
    /\ Len(input_) > 0
    /\ IsSpace(input_[Len(input_)])

ComparisonOperators == {<<"=">>, <<"!","=">>, <<"<">>, <<">">>, <<"<","=">>, <<">","=">>}

\* C18: every Operator token of a returned token sequence, and the operator of
\* every attribute condition of a returned step list, is one of = != < > <= >=.
C18_OperatorsInSet ==
    /\ Lexed => \A i \in 1..Len(Toks) :
                    Toks[i].type = "Operator" => Toks[i].value \in ComparisonOperators
    /\ Parsed => \A i \in 1..Len(Steps) : \A j \in 1..Len(Steps[i].predicate.conditions) :
                     LET c == Steps[i].predicate.conditions[j]
                     IN  c.kind = "attribute" => c.op \in ComparisonOperators

\* C19: a step written name::test, name an identifier of any length, is parsed
\* into one step with axis = name and node test = test; a step written without
\* an axis specifier has the axis "child".
C19_AxisSpecifier ==
    /\ (shape.some /\ shape.val.family = "axis" /\ parsed.some) =>
           /\ parsed.val.steps.some
           /\ Len(Steps) = 1
           /\ Steps[1].axis = shape.val.pieces[1].name
           /\ Steps[1].tag = shape.val.pieces[1].test
    /\ (shape.some /\ shape.val.family = "path" /\ Parsed) =>
           \A i \in 1..Len(Steps) : Steps[i].axis = S_child

\* The quote at s[i] is closed later in s: a backslash protects the character
\* after it.
RECURSIVE Closes(_, _, _)
Closes(s, p, q) ==
    IF p > Len(s) THEN FALSE
    ELSE IF s[p] = q THEN TRUE
    ELSE IF s[p] = "\\" THEN Closes(s, p + 2, q)
    ELSE Closes(s, p + 1, q)

\* s[i] is a quote that opens a literal (only separators, operators, brackets
\* and whitespace stand before it) and that is not closed
OpensUnterminated(s, i) ==
    /\ s[i] \in {"'", "\""}
    /\ \A j \in 1..(i - 1) : s[j] \in {"/", "[", "]", "@", "=", "!", "<", ">", "*"} \/ IsSpace(s[j])
    /\ ~Closes(s, i + 1, s[i])

\* C20: on an input with an opening quote that is never closed, tokenize fails,
\* and the error carries the offset of the opening quote.
C20_UnterminatedReportsQuoteOffset ==
    lexed.some =>
        \A i \in 1..Len(input_) :
            OpensUnterminated(input_, i) =>
                /\ lexed.val.error.some
                /\ lexed.val.error.val.at = Some(i - 1)

ParseFailed == parsed.some /\ parsed.val.error.some
ParseError == parsed.val.error.val

\* C21: every error the parser raises (missing node test, unexpected token in a
\* predicate, wrong token after `@`, after an attribute name or after an
\* operator, missing closing bracket) carries the offset of a token of the input.
C21_ParserErrorsCarryOffset ==
    ParseFailed =>
        /\ ParseError.at.some
        /\ \E i \in 1..Len(Toks) : Toks[i].position = ParseError.at.val

InFamily(family) == shape.some /\ shape.val.family = family
Located == located.some

\* C22: an `and` / `or` between the conditions of a predicate is consumed and
\* produces no condition: the parsed condition list is the written conditions in
\* source order whichever connective separates them, and every one of them is in
\* the metadata of the one locator (each attribute name mapped to its value).
C22_ConnectivesConsumedConditionsFlattened ==
    (InFamily("conditions") /\ Located) =>
        LET l == shape.val.pieces[1]
            written == [i \in 1..Len(l.conds) |-> l.conds[i].condition]
        IN  /\ Len(Steps) = 1
            /\ Steps[1].predicate.conditions = written
            /\ Len(located.val) = 1
            /\ \A i \in 1..Len(written) :
                   written[i].kind = "attribute" =>
                       /\ written[i].name \in DOMAIN located.val[1].meta
                       /\ located.val[1].meta[written[i].name] = JString(written[i].value)

\* C23: in a predicate, a tag token followed by an operator token and a literal
\* or tag token is one attribute condition whose name, operator and value are the
\* raw texts of the three tokens, also where the name is a number or `and`: the
\* rule is tried before the position and the and/or rules.  `book[price>35]`
\* gives {name: price, operator: >, value: 35}.
C23_BareComparison ==
    (InFamily("bare") /\ parsed.some) =>
        LET c == shape.val.pieces[1]
            k == IF c.before = <<>> THEN 1 ELSE 2
        IN  /\ Parsed
            /\ Len(Steps) = k + (IF c.after = <<>> THEN 0 ELSE 1)
            /\ Steps[k].tag = S_book
            /\ Steps[k].predicate
                   = ComplexPredicate(<<AttributePredicate(c.name, c.value.raw, c.op)>>)
C23_Witness ==
    /\ InFamily("bare")
    /\ input_ = P_bookstore \o S_book \o S_open \o S_price \o <<">">> \o S_35 \o S_close
                    \o P_title
    /\ Parsed
    /\ Steps[2].predicate.conditions = <<AttributePredicate(S_price, S_35, <<">">>)>>

Uid(i) == located.val[i].uid
ParentPrefix(i) == IF i = 1 THEN <<>> ELSE Uid(i - 1) \o <<"_">>

\* C24: the uid of every wildcard step, written or synthesized, has "any" in
\* the place of the node test (right after the parent's uid), and no uid
\* contains the character `*`.
C24_WildcardIsAny ==
    Located =>
        \A i \in 1..Len(located.val) :
            /\ \A j \in 1..Len(Uid(i)) : Uid(i)[j] # "*"
            /\ Steps[i].tag = <<"*">> =>
                   StartsWith(Uid(i), ParentPrefix(i) \o <<"a","n","y","_">>)
C24_Witness ==
    /\ Located
    /\ InFamily("path")
    /\ \E i \in 1..Len(located.val) :
           /\ i > 1
           /\ Steps[i].tag = <<"*">>
           /\ StartsWith(Uid(i), ParentPrefix(i) \o <<"a","n","y","_">>)

\* The record of one locator as the renderer's contract words it: the uid, " = ",
\* and the metadata object one field a line, keys sorted, with the container as
\* one more field of bare text when there is one.
MetaFields(loc) ==
    LET keys == SortedKeys(DOMAIN loc.meta)
    IN  [i \in 1..Len(keys) |->
            S_indent \o Quoted(keys[i]) \o <<":", " ">> \o DumpValue(loc.meta[keys[i]])]
ContainerField(loc) ==
    IF loc.container = <<>> THEN <<>>
    ELSE <<S_indent \o <<"\"","c","o","n","t","a","i","n","e","r","\"",":"," ">>
               \o loc.container>>
Record(loc) ==
    loc.uid \o <<" ", "=", " ", "{", "\n">>
        \o Join(MetaFields(loc) \o ContainerField(loc), <<",", "\n">>)
        \o <<"\n", "}", "\n">>
Returned(t) == pc[t] = "returned" /\ result[t].some

C26_FailureKeepsCache ==
    /\ \A t \in Threads :
           /\ pc[t] = "thrown" => "convert" \notin ran[t]
           /\ (pc[t] # "idle" /\ "convert" \notin ran[t]) => _cache = entry[t]
    /\ (/\ seen.some
        /\ seen.val.result.some
        /\ seen.val.since \subseteq {"thrown"}
        /\ \A t \in Threads : "convert" \notin ran[t])
           => _cache = seen.val.result.val.locators
C26_Witness ==
    \E t \in Threads :
        /\ pc[t] = "thrown"
        /\ ran[t] = {"tokenize", "parse"}
        /\ seen.some
        /\ seen.val.result.some
        /\ seen.val.since = {"thrown"}
        /\ _cache # <<>>
        /\ _cache = seen.val.result.val.locators

\* C27: with the default classifier every uid convert produces is non-empty,
\* the uid of each locator after the first starts with the uid of the locator
\* before it followed by "_" and is strictly longer, and so the uids of one
\* invocation are pairwise distinct, also for a repeated step.
C27_UidsExtendTheParent ==
    Located =>
        /\ \A i \in 1..Len(located.val) :
               /\ Uid(i) # <<>>
               /\ i > 1 =>
                      /\ StartsWith(Uid(i), Uid(i - 1) \o <<"_">>)
                      /\ Len(Uid(i)) > Len(Uid(i - 1))
        /\ \A i, j \in 1..Len(located.val) : i # j => Uid(i) # Uid(j)
C27_Witness ==
    /\ Located
    /\ Len(located.val) >= 2
    /\ Steps[1] = Steps[2]
    /\ Uid(2) = Uid(1) \o <<"_">> \o Uid(1)

ReturnedLabels ==
    {PushButtonQT, ScrollViewQT, ModuleQT, TextFieldQT, CheckBoxQT, ComboBoxQT, SliderQT,
     LabelQT, QWidget}
EndsWithRadiobutton(t) == Matches(Rule("suffix", S_radiobutton, RadioButtonQT), t)

\* C28 (under SpecUtil): the classifier returns RadioButtonQT for no tag: a tag
\* whose lower-cased form ends with "radiobutton" ends with "button" and is
\* labelled PushButtonQT; the labels returned are the nine others, each of
\* them for some tag.
C28_NeverRadioButton ==
    (u_fn = "classifier" /\ u_ret.some) =>
        /\ u_ret.val # RadioButtonQT
        /\ u_ret.val \in ReturnedLabels
        /\ EndsWithRadiobutton(Lowered(u_arg)) =>
               /\ Matches(Rule("suffix", S_button, PushButtonQT), Lowered(u_arg))
               /\ u_ret.val = PushButtonQT
        /\ {classifier_(t) : t \in Tags} = ReturnedLabels
C28_Witness ==
    /\ u_fn = "classifier"
    /\ u_ret.some
    /\ EndsWithRadiobutton(Lowered(u_arg))
    /\ u_arg # Lowered(u_arg)
    /\ u_ret.val = PushButtonQT

\* C29: tokenize terminates on every finite input: every iteration of its loop,
\* whatever the character at the read position (NUL included), fails with an
\* error or strictly increases the read position, so none appends a token
\* without consuming input and no call runs until memory is exhausted.
C29_EveryIterationProgresses ==
    lexed.some =>
        /\ \A pos \in 0..(Len(input_) - 1) :
               LET s == LexIteration(input_, pos, <<>>)
               IN  s.error.some \/ s.pos > pos
        /\ ~(lexed.val.error.some /\ lexed.val.error.val.what = "std::bad_alloc")

Unclosed == InFamily("predicate") /\ \A i \in 1..Len(shape.val.pieces) : shape.val.pieces[i] # S_close

\* C30: parsePredicate returns normally only at a `]`, so parseStep never raises
\* "Expected closing ']'"; a predicate left unclosed at the end of the input
\* fails inside parsePredicate, as an unexpected token, and the parser reads no
\* token index past the end-marker.
C30_UnclosedFailsInPredicate ==
    parsed.some =>
        /\ ParseFailed =>
               ParseError.what
                   \notin {"Expected closing ']' at pos", "tokens_ read past its end"}
        /\ Unclosed =>
               /\ ParseFailed
               /\ ParseError.what
                      \in {"Unexpected token in predicate at pos", "Unexpected token"}
C30_Witness ==
    /\ Unclosed
    /\ shape.val.pieces = <<S_at, S_b, S_eq, S_quoted_x>>
    /\ ParseFailed
    /\ ParseError = ThrownAt("Unexpected token in predicate at pos", Len(input_))

=============================================================================
